---- MODULE Spec2Model ----
(***************************************************************************)
(* GenesisZ (genesis.py): one run of main() as a state machine.            *)
(*                                                                         *)
(* Text is a sequence of one-character strings, a byte is a pair of hex    *)
(* digits, an optional value is the empty sequence (Python's None) or a    *)
(* one-element sequence holding the value.                                 *)
(***************************************************************************)
EXTENDS Integers, Sequences, FiniteSets, TLC

VARIABLES
    opt,        \* the command line: what the user typed (absent options are None)
    oracle,     \* blockexplorer: the answer be.get_latest gives to its i-th call
    pc,         \* position of main()
    args,       \* the namespace parse_args returns
    log,        \* warnings emitted through logger.warn, in order
    lookups,    \* the calls made to be.get_latest, in order: [code, answer]
    hashed,     \* the text handed to blake2s by build_pszTimestamp (None if not called)
    eh,         \* the CEquihashHeader built, with the coinbase script it commits to
    solver,     \* the solver adapter constructed by main (None before)
    run,        \* the adapter's run: its state, processes spawned/alive, lines read
    loop,       \* the asyncio event loop: "none", "open", "closed"
    closes,     \* how many times loop.close() was called
    pending,    \* the exception in flight through main's try statement, "" if none
    printed     \* whether the success output was printed

vars == <<opt, oracle, pc, args, log, lookups, hashed, eh, solver, run, loop,
          closes, pending, printed>>

----------------------------------------------------------------------------
(* Bounds of the model *)

MaxNonceChars == 66
MaxSegs == 3
MaxRounds == 3

----------------------------------------------------------------------------
(* Python values *)

None == << >>
Some(v) == <<v>>
Val(o) == o[1]

Reverse(s) == [i \in 1..Len(s) |-> s[Len(s) + 1 - i]]

Zeros(n) == [i \in 1..n |-> "0"]

Take(s, n) == SubSeq(s, 1, IF n < Len(s) THEN n ELSE Len(s))

\* `x if x else y` on an optional int: None and 0 are both falsy
TruthyInt(o) == o # None /\ Val(o) # 0

\* `x if x else y` on an optional str: None and '' are both falsy
TruthyStr(o) == o # None /\ Val(o) # << >>

----------------------------------------------------------------------------
(* bitcoin.core hex helpers, as genesis.py uses them *)

HexDigits == <<"0", "1", "2", "3", "4", "5", "6", "7",
               "8", "9", "a", "b", "c", "d", "e", "f">>

\* binascii.unhexlify: two hex digits per byte; raises on an odd length
unhexlify(h) == [i \in 1..(Len(h) \div 2) |-> <<h[2 * i - 1], h[2 * i]>>]

unhexlify_ok(h) == Len(h) % 2 = 0

hexlify(b) == [i \in 1..(2 * Len(b)) |-> b[(i + 1) \div 2][2 - (i % 2)]]

\* lx: hex string to bytes, little endian
lx(h) == Reverse(unhexlify(h))

\* b2lx: bytes to hex string, little endian
b2lx(b) == hexlify(Reverse(b))

----------------------------------------------------------------------------
(* parse_args.lbytes32 *)

\* the condition under which lbytes32 warns and truncates
lbytes32_too_long(s) == Len(s) > 32

\* what lbytes32 keeps of an over-long string
lbytes32_truncate(s) == Take(s, 64)

\* lbytes32(s): [ok, value, warned]; ok = FALSE when lx raises (argparse then
\* reports an invalid value and exits)
lbytes32(s) ==
    IF lbytes32_too_long(s)
    THEN LET t == lbytes32_truncate(s)
         IN  [ok |-> unhexlify_ok(t),
              value |-> IF unhexlify_ok(t) THEN lx(t) ELSE << >>,
              warned |-> TRUE]
    ELSE LET t == Zeros(64 - Len(s)) \o s
         IN  [ok |-> unhexlify_ok(t),
              value |-> IF unhexlify_ok(t) THEN lx(t) ELSE << >>,
              warned |-> FALSE]

\* default of --nonce: b'\x00'*32 (a bytes default is not passed through type=)
default_nonce == [i \in 1..32 |-> <<"0", "0">>]

----------------------------------------------------------------------------
(* parse_args: solver type and the compatibility check *)

sa_solver == <<"s", "a", "-", "s", "o", "l", "v", "e", "r">>

\* str.endswith
endswith(s, suffix) ==
    /\ Len(suffix) <= Len(s)
    /\ SubSeq(s, Len(s) - Len(suffix) + 1, Len(s)) = suffix

\* \w of Python's re, over the characters the model's paths are written in
WordChars == {"a", "c", "e", "i", "l", "o", "q", "r", "s", "u", "v", "x",
              "0", "1", "4", "5", "_"}

\* re.search(r'eq\w*$', s)
re_search_eq(s) ==
    \E i \in 1..(Len(s) - 1) :
        /\ s[i] = "e"
        /\ s[i + 1] = "q"
        /\ \A j \in (i + 2)..Len(s) : s[j] \in WordChars

\* add_argument("-S", ..., default="tromp", choices=[...]): the value argparse
\* stores in args.solver_type
argparse_solver_type(o) == IF o = None THEN Some("tromp") ELSE o

\* `not args.solver_type`
solver_type_unset(st) == st = None \/ Val(st) = ""

\* the inference from the binary name; None when it ends in fatal(...)
infer_solver_type(path) ==
    IF endswith(path, sa_solver) THEN Some("silentarmy")
    ELSE IF re_search_eq(path) THEN Some("tromp")
    ELSE None

\* args.solver_type after the inference block; None when fatal was called
resolve_solver_type(st, cmd) ==
    IF solver_type_unset(st) THEN infer_solver_type(cmd[1]) ELSE st

\* the check with the wrong chain name
incompatible_wrong_chain(solver_type, chain) ==
    solver_type = "silentarmy" /\ chain = "testnet"

\* "silentarmy only supports N,K=200,9"
incompatible(solver_type, chain) ==
    solver_type = "silentarmy" /\ chain = "regtest"

\* logger.fatal reports and ends the process: the position main is left in
fatal == "fatal"

\* add_argument("-r", ..., default=1)
argparse_rounds(o) == IF o = None THEN 1 ELSE Val(o)

\* add_argument("-b", ..., default=0x1f07ffff)
default_bits == 520617983

----------------------------------------------------------------------------
(* build_pszTimestamp *)

UpperChars == {"B", "T", "C", "E", "H"}

\* r'\{[A-Z]{3}\}' matches at position i of t
token_at(t, i) ==
    /\ i + 4 <= Len(t)
    /\ t[i] = "{"
    /\ t[i + 1] \in UpperChars
    /\ t[i + 2] \in UpperChars
    /\ t[i + 3] \in UpperChars
    /\ t[i + 4] = "}"

RECURSIVE findall_from(_, _)
findall_from(t, i) ==
    IF i + 4 > Len(t) THEN << >>
    ELSE IF token_at(t, i)
         THEN <<SubSeq(t, i, i + 4)>> \o findall_from(t, i + 5)
         ELSE findall_from(t, i + 1)

\* re.findall(r'\{[A-Z]{3}\}', t): every match, left to right, repeats included
findall(t) == findall_from(t, 1)

RECURSIVE replace_from(_, _, _, _)
replace_from(t, old, new, i) ==
    IF i > Len(t) THEN << >>
    ELSE IF i + Len(old) - 1 <= Len(t) /\ SubSeq(t, i, i + Len(old) - 1) = old
         THEN new \o replace_from(t, old, new, i + Len(old))
         ELSE <<t[i]>> \o replace_from(t, old, new, i + 1)

\* str.replace(old, new, 1): the first occurrence only
replace_first(t, old, new) ==
    IF \E i \in 1..Len(t) : i + Len(old) - 1 <= Len(t)
                              /\ SubSeq(t, i, i + Len(old) - 1) = old
    THEN LET i == CHOOSE k \in 1..Len(t) :
                      /\ k + Len(old) - 1 <= Len(t)
                      /\ SubSeq(t, k, k + Len(old) - 1) = old
                      /\ \A m \in 1..(k - 1) :
                             SubSeq(t, m, m + Len(old) - 1) # old
         IN  SubSeq(t, 1, i - 1) \o new \o SubSeq(t, i + Len(old), Len(t))
    ELSE t

\* str.replace(old, new) for a non-empty old: every occurrence
replace(t, old, new) == replace_from(t, old, new, 1)

RECURSIVE format_d(_)
\* '{:d}'.format(n) for n >= 0
format_d(n) ==
    IF n < 10 THEN <<HexDigits[n + 1]>>
    ELSE format_d(n \div 10) \o <<HexDigits[(n % 10) + 1]>>

\* get_latest_block_str(coin) given the answer (height, hash) of be.get_latest
get_latest_block_str(coin, ans) ==
    coin \o <<"#">> \o format_d(ans.height) \o <<" ">> \o ans.hash

\* blake2s(text).hexdigest(), kept as a term over its argument
blake2s_hexdigest(text) == <<"blake2s(">> \o text \o <<")">>

RECURSIVE subst_loop(_, _, _, _, _)
\* the for loop of build_pszTimestamp over the matches from index j on: one
\* lookup per match; a failing lookup raises out of the loop
subst_loop(matches, j, timestamp, answers, calls) ==
    IF j > Len(matches) THEN [ok |-> TRUE, text |-> timestamp, calls |-> calls]
    ELSE LET coin == SubSeq(matches[j], 2, 4)
             ans == answers[Len(calls) + 1]
         IN  IF ~ans.ok
             THEN [ok |-> FALSE, text |-> timestamp,
                   calls |-> Append(calls, [code |-> coin, ans |-> ans])]
             ELSE subst_loop(matches, j + 1,
                             replace(timestamp, matches[j],
                                     get_latest_block_str(coin, ans)),
                             answers,
                             Append(calls, [code |-> coin, ans |-> ans]))

\* build_pszTimestamp(coinname, timestamp) against the lookup answers:
\* [ok, value, text (what was hashed), calls]
build_pszTimestamp(coinname, timestamp, answers) ==
    LET r == subst_loop(findall(timestamp), 1, timestamp, answers, << >>)
    IN  [ok |-> r.ok,
         text |-> r.text,
         calls |-> r.calls,
         value |-> IF r.ok THEN coinname \o blake2s_hexdigest(r.text) ELSE << >>]

----------------------------------------------------------------------------
(* build_EquihashInputHeader *)

\* pszTimestamp = args.pszTimestamp if args.pszTimestamp else build_pszTimestamp(...)
uses_override(a) == TruthyStr(a.pszTimestamp)

\* extranonce = args.extranonce if args.extranonce else bits
extranonce_of(a) == IF TruthyInt(a.extranonce) THEN Val(a.extranonce) ELSE a.bits

\* tx.GetTxid(), kept as a term over the transaction
GetTxid(tx) == [txid_of |-> tx]

\* the header built from the resolved payload
build_header(a, pszTimestamp) ==
    LET scriptSig == [extranonce |-> extranonce_of(a), marker |-> 4,
                      payload |-> pszTimestamp]
        scriptPubKey == [pubkey |-> a.pubkey, op |-> "OP_CHECKSIG"]
        tx == [vin |-> <<scriptSig>>,
               vout |-> <<[nValue |-> a.value, scriptPubKey |-> scriptPubKey]>>]
    IN  [nTime |-> a.time, nBits |-> a.bits, nNonce |-> a.nonce,
         hashMerkleRoot |-> GetTxid(tx)]

----------------------------------------------------------------------------
(* main: the adapters it constructs and its try statement *)

\* the adapter given one round too many
new_TrompSolver_extra_round(a, h) ==
    [type |-> "tromp", cmd |-> a.solver, header |-> h, rounds |-> a.rounds + 1,
     nonce |-> a.nonce, threads |-> a.threads]

\* TrompSolver(args.solver, eh, args.rounds, args.nonce, args.threads)
new_TrompSolver(a, h) ==
    [type |-> "tromp", cmd |-> a.solver, header |-> h, rounds |-> a.rounds,
     nonce |-> a.nonce, threads |-> a.threads]

\* the adapter always given a single round
new_SilentarmySolver_single(a, h) ==
    [type |-> "silentarmy", cmd |-> a.solver, header |-> h, rounds |-> 1,
     nonce |-> a.nonce, threads |-> 0]

\* SilentarmySolver(args.solver, eh, args.rounds, args.nonce)
new_SilentarmySolver(a, h) ==
    [type |-> "silentarmy", cmd |-> a.solver, header |-> h, rounds |-> a.rounds,
     nonce |-> a.nonce, threads |-> 0]

\* a handler that raises the exception again
except_reraises(exc) == exc

\* except SolverException as e: warn(...) -- the exception left in flight
\* after the handler ("" for none)
except_SolverException(exc) == IF exc = "SolverException" THEN "" ELSE exc

\* loop.close() after the try statement instead of in its finally clause
close_after_try(exc) == exc = ""

\* finally: loop.close() -- whether the close is reached with exc in flight
finally_reached(exc) == TRUE

\* the positions in which main is inside its try statement
InTry == {"try", "finalise", "except"}

\* the positions in which the process has ended
Ended == {"done", "crashed", "fatal", "usage"}

----------------------------------------------------------------------------
(* Inputs *)

Flatten(segs) ==
    LET F[i \in 0..Len(segs)] == IF i = 0 THEN << >> ELSE F[i - 1] \o segs[i]
    IN  F[Len(segs)]

BTC == <<"{", "B", "T", "C", "}">>
ETH == <<"{", "E", "T", "H", "}">>

\* what templates are made of: tokens, and text that forms no token
Segs == {BTC, ETH, <<"x">>, <<"{">>, <<"}">>, <<"B", "T">>}

SeqsUpTo(S, n) == UNION {[1..k -> S] : k \in 0..n}

\* be.get_latest(code): (height, hash), or an error
Answers == {[ok |-> FALSE, height |-> 0, hash |-> << >>],
            [ok |-> TRUE, height |-> 7, hash |-> <<"a", "b">>],
            [ok |-> TRUE, height |-> 12, hash |-> <<"c">>]}

Oracles == [1..MaxSegs -> Answers]

ConstOracles == {[i \in 1..MaxSegs |-> a] : a \in Answers}

\* a hex string of n digits
NonceOf(n, mult, off) == [i \in 1..n |-> HexDigits[((i * mult + off) % 16) + 1]]

NonceInputs == {NonceOf(n, m, o) : n \in 0..MaxNonceChars, m \in {0, 1}, o \in {1, 10}}

Solvers == {<<<<"e", "q", "1", "4", "4", "5", "1">>>>,
            <<<<"x", "/", "s", "a", "-", "s", "o", "l", "v", "e", "r">>>>,
            <<<<"e", "q", "/", "s", "o", "l", "v", "e", "r">>, <<"-", "x">>>>}

Coinname == <<"Z", "c", "a", "s", "h">>

DefaultOpt ==
    [chain |-> "mainnet", solver_type |-> None, solver |-> <<<<"e", "q", "1">>>>,
     rounds |-> None, extranonce |-> None, pszTimestamp |-> None,
     segs |-> <<<<"x">>>>, nonce |-> None, platform |-> "linux"]

MainOpts ==
    {[DefaultOpt EXCEPT !.chain = c, !.solver_type = st, !.solver = s,
                        !.rounds = r, !.extranonce = e, !.pszTimestamp = z,
                        !.segs = g, !.platform = p] :
        c \in {"mainnet", "testnet", "regtest"},
        st \in {None, Some("tromp"), Some("silentarmy")},
        s \in Solvers,
        r \in {None} \cup {Some(n) : n \in 1..MaxRounds},
        e \in {None, Some(0), Some(5)},
        z \in {None, Some(<< >>), Some(<<"g">>)},
        g \in {<<<<"x">>>>, <<BTC, <<"x">>, BTC>>},
        p \in {"linux", "win32"}}

IdleRun == [state |-> "Idle", spawned |-> 0, alive |-> 0, round |-> 0,
            lines |-> << >>]

NoLoop == [kind |-> "none", state |-> "none"]

InitRest ==
    /\ pc = "start"
    /\ args = None
    /\ log = << >>
    /\ lookups = << >>
    /\ hashed = None
    /\ eh = None
    /\ solver = None
    /\ run = IdleRun
    /\ loop = NoLoop
    /\ closes = 0
    /\ pending = ""
    /\ printed = FALSE

Init ==
    /\ opt \in MainOpts
    /\ oracle \in ConstOracles
    /\ InitRest

InitNonce ==
    /\ opt \in {[DefaultOpt EXCEPT !.nonce = Some(n)] : n \in NonceInputs}
    /\ oracle \in ConstOracles
    /\ InitRest

InitTimestamp ==
    /\ opt \in {[DefaultOpt EXCEPT !.segs = g] : g \in SeqsUpTo(Segs, MaxSegs)}
    /\ oracle \in Oracles
    /\ InitRest

----------------------------------------------------------------------------
(* parse_args *)

ParseArgs ==
    /\ pc = "start"
    /\ LET n == IF opt.nonce = None
                THEN [ok |-> TRUE, value |-> default_nonce, warned |-> FALSE]
                ELSE lbytes32(Val(opt.nonce))
           st == resolve_solver_type(argparse_solver_type(opt.solver_type),
                                     opt.solver)
           a == [chain |-> opt.chain, time |-> "now", coinname |-> Coinname,
                 timestamp |-> Flatten(opt.segs),
                 pszTimestamp |-> opt.pszTimestamp, pubkey |-> "pubkey",
                 bits |-> default_bits, extranonce |-> opt.extranonce,
                 value |-> 0, nonce |-> n.value,
                 rounds |-> argparse_rounds(opt.rounds), solver |-> opt.solver,
                 solver_type |-> IF st = None THEN "" ELSE Val(st),
                 threads |-> 1]
       IN  /\ log' = IF n.warned THEN Append(log, "nonce truncated") ELSE log
           /\ IF ~n.ok
              THEN args' = None /\ pc' = "usage"
              ELSE /\ args' = Some(a)
                   /\ pc' = IF st = None \/ incompatible(a.solver_type, a.chain)
                            THEN fatal
                            ELSE "parsed"
    /\ UNCHANGED <<opt, oracle, lookups, hashed, eh, solver, run, loop, closes,
                   pending, printed>>

----------------------------------------------------------------------------
(* main, up to the try statement *)

\* eh = build_EquihashInputHeader(args); a failing lookup leaves main
BuildHeader ==
    /\ pc = "parsed"
    /\ LET a == Val(args)
       IN  IF uses_override(a)
           THEN /\ eh' = Some(build_header(a, Val(a.pszTimestamp)))
                /\ pc' = "built"
                /\ UNCHANGED <<lookups, hashed, pending>>
           ELSE LET r == build_pszTimestamp(a.coinname, a.timestamp, oracle)
                IN  /\ lookups' = r.calls
                    /\ IF r.ok
                       THEN /\ hashed' = Some(r.text)
                            /\ eh' = Some(build_header(a, r.value))
                            /\ pc' = "built"
                            /\ UNCHANGED pending
                       ELSE /\ pending' = "LookupError"
                            /\ pc' = "crashed"
                            /\ UNCHANGED <<hashed, eh>>
    /\ UNCHANGED <<opt, oracle, args, log, solver, run, loop, closes, printed>>

ConstructSolver ==
    /\ pc = "built"
    /\ LET a == Val(args)
       IN  solver' = IF a.solver_type = "tromp"
                     THEN Some(new_TrompSolver(a, Val(eh)))
                     ELSE IF a.solver_type = "silentarmy"
                     THEN Some(new_SilentarmySolver(a, Val(eh)))
                     ELSE None
    /\ pc' = "constructed"
    /\ UNCHANGED <<opt, oracle, args, log, lookups, hashed, eh, run, loop,
                   closes, pending, printed>>

GetLoop ==
    /\ pc = "constructed"
    /\ loop' = [kind |-> IF opt.platform = "win32" THEN "ProactorEventLoop"
                         ELSE "default",
                state |-> "open"]
    /\ pc' = "try"
    /\ UNCHANGED <<opt, oracle, args, log, lookups, hashed, eh, solver, run,
                   closes, pending, printed>>

----------------------------------------------------------------------------
(* solver.run(), driven by loop.run_until_complete: the adapters' state      *)
(* machines (module solvers)                                                 *)

\* the process of the current round has exited or been terminated
reap(r) == [r EXCEPT !.alive = 0]

\* NoSolutionThisRound: the round's process has exited, the nonce is
\* incremented and the round counter checked against maxRounds
rounds_remain(r, s) == r.round + 1 < s.rounds

\* the run raises SolverException; no process is left running
RaiseSolverException(r, state) ==
    /\ run' = [reap(r) EXCEPT !.state = state]
    /\ pending' = "SolverException"
    /\ pc' = "except"

\* run_until_complete(solver.run()) starts the adapter
SolverStart ==
    /\ pc = "try"
    /\ run.state = "Idle"
    /\ run' = [run EXCEPT !.state = "Spawning"]
    /\ UNCHANGED <<opt, oracle, pc, args, log, lookups, hashed, eh, solver, loop,
                   closes, pending, printed>>

\* the adapter spawns the process of this round
SolverSpawn ==
    /\ pc = "try"
    /\ run.state = "Spawning"
    /\ run' = [run EXCEPT !.state = IF Val(solver).type = "tromp"
                                    THEN "AwaitingLine" ELSE "AwaitingOutput",
                          !.spawned = @ + 1, !.alive = @ + 1]
    /\ UNCHANGED <<opt, oracle, pc, args, log, lookups, hashed, eh, solver, loop,
                   closes, pending, printed>>

\* the binary cannot be started
SolverSpawnFails ==
    /\ pc = "try"
    /\ run.state = "Spawning"
    /\ RaiseSolverException(run, "ProcessError")
    /\ UNCHANGED <<opt, oracle, args, log, lookups, hashed, eh, solver, loop,
                   closes, printed>>

\* Tromp variant: the next line of the process's output
TrompReadLine ==
    /\ pc = "try"
    /\ run.state = "AwaitingLine"
    /\ \E line \in {"solution", "no solution", "malformed"} :
         LET r == [run EXCEPT !.lines = Append(@, line)]
         IN  \/ /\ line = "solution"
                /\ run' = [reap(r) EXCEPT !.state = "SolutionFound"]
                /\ pc' = "finalise"
                /\ UNCHANGED pending
             \/ /\ line = "no solution"
                /\ rounds_remain(r, Val(solver))
                /\ run' = [reap(r) EXCEPT !.state = "Spawning", !.round = @ + 1]
                /\ UNCHANGED <<pc, pending>>
             \/ /\ line = "no solution"
                /\ ~rounds_remain(r, Val(solver))
                /\ RaiseSolverException([r EXCEPT !.round = @ + 1],
                                        "NoSolutionThisRound")
             \/ /\ line = "malformed"
                /\ RaiseSolverException(r, "ProcessError")
    /\ UNCHANGED <<opt, oracle, args, log, lookups, hashed, eh, solver, loop,
                   closes, printed>>

\* Silentarmy variant: the single report of the process
SilentarmyReadOutput ==
    /\ pc = "try"
    /\ run.state = "AwaitingOutput"
    /\ \E report \in {"solution", "malformed"} :
         LET r == [run EXCEPT !.lines = Append(@, report)]
         IN  \/ /\ report = "solution"
                /\ run' = [reap(r) EXCEPT !.state = "SolutionFound"]
                /\ pc' = "finalise"
                /\ UNCHANGED pending
             \/ /\ report = "malformed"
                /\ RaiseSolverException(r, "ProcessError")
    /\ UNCHANGED <<opt, oracle, args, log, lookups, hashed, eh, solver, loop,
                   closes, printed>>

----------------------------------------------------------------------------
(* main: the try statement *)

\* h = CZBlockHeader.from_EquihashHeader(eh, solution, nonce); print(...)
Finalise ==
    /\ pc = "finalise"
    /\ printed' = TRUE
    /\ pc' = "finally"
    /\ UNCHANGED <<opt, oracle, args, log, lookups, hashed, eh, solver, run,
                   loop, closes, pending>>

\* a failure other than SolverException, raised while running the solver or
\* finalising the header
OtherFailure ==
    /\ pc \in {"try", "finalise"}
    /\ pending' = "Exception"
    /\ pc' = "finally"
    /\ UNCHANGED <<opt, oracle, args, log, lookups, hashed, eh, solver, run,
                   loop, closes, printed>>

\* an external interruption (KeyboardInterrupt) inside the try statement
Interrupt ==
    /\ pc \in InTry
    /\ pending' = "KeyboardInterrupt"
    /\ pc' = "finally"
    /\ UNCHANGED <<opt, oracle, args, log, lookups, hashed, eh, solver, run,
                   loop, closes, printed>>

\* except SolverException as e: warn('{}\nExiting.'.format(e))
HandleSolverException ==
    /\ pc = "except"
    /\ pending' = except_SolverException(pending)
    /\ log' = IF except_SolverException(pending) = ""
              THEN Append(log, "solver exception") ELSE log
    /\ pc' = "finally"
    /\ UNCHANGED <<opt, oracle, args, lookups, hashed, eh, solver, run, loop,
                   closes, printed>>

\* finally: loop.close(); then main returns, or the exception in flight
\* leaves it
Finally ==
    /\ pc = "finally"
    /\ IF finally_reached(pending)
       THEN /\ loop' = [loop EXCEPT !.state = "closed"]
            /\ closes' = closes + 1
       ELSE UNCHANGED <<loop, closes>>
    /\ pc' = IF pending = "" THEN "done" ELSE "crashed"
    /\ UNCHANGED <<opt, oracle, args, log, lookups, hashed, eh, solver, run,
                   pending, printed>>

----------------------------------------------------------------------------
(* Specifications *)

Next ==
    \/ ParseArgs
    \/ BuildHeader
    \/ ConstructSolver
    \/ GetLoop
    \/ SolverStart
    \/ SolverSpawn
    \/ SolverSpawnFails
    \/ TrompReadLine
    \/ SilentarmyReadOutput
    \/ Finalise
    \/ OtherFailure
    \/ Interrupt
    \/ HandleSolverException
    \/ Finally

\* one run of main
Spec == Init /\ [][Next]_vars

\* parse_args over the --nonce values
NextNonce == ParseArgs

SpecNonce == InitNonce /\ [][NextNonce]_vars

\* build_EquihashInputHeader over the timestamp templates and lookup answers
NextTimestamp == ParseArgs \/ BuildHeader

SpecTimestamp == InitTimestamp /\ [][NextTimestamp]_vars

----------------------------------------------------------------------------
(* Properties *)

\* the configured number of rounds
Rounds == IF opt.rounds = None THEN 1 ELSE Val(opt.rounds)

\* the coinbase input script the header commits to
ScriptSig == Val(eh).hashMerkleRoot.txid_of.vin[1]

\* the answers of the lookups made so far contain a failure
LookupFailed == \E i \in 1..Len(lookups) : ~lookups[i].ans.ok

\* solver.run() raised SolverException
Raised == run.state \in {"ProcessError", "NoSolutionThisRound"}

\* t contains three capital letters in braces
HasToken(t) ==
    \E i \in 1..(Len(t) - 4) :
        /\ t[i] = "{"
        /\ \A j \in 1..3 : t[i + j] \in {"B", "T", "C", "E", "H"}
        /\ t[i + 4] = "}"

\* C1: after parse_args, a --nonce value s of at most 64 hex characters has
\* become s left-padded with '0' to 64 characters (32 bytes) without a
\* warning, and a longer s its first 64 characters with a warning; the nonce
\* is 32 bytes long in both cases.
C1_NoncePadding ==
    (pc # "start" /\ opt.nonce # None) =>
        LET s == Val(opt.nonce)
        IN  /\ args # None
            /\ Len(Val(args).nonce) = 32
            /\ IF Len(s) <= 64
               THEN /\ b2lx(Val(args).nonce) = Zeros(64 - Len(s)) \o s
                    /\ log = << >>
               ELSE /\ b2lx(Val(args).nonce) = SubSeq(s, 1, 64)
                    /\ log # << >>

\* C2: once the configuration is found to be silentarmy with regtest, or a
\* timestamp lookup has failed, the run has ended with a fatal error, no
\* solver adapter has been constructed and no process has been spawned.
C2_FailFast ==
    /\ (/\ pc # "start"
        /\ \/ opt.solver_type = Some("silentarmy") /\ opt.chain = "regtest"
           \/ /\ args # None
              /\ Val(args).solver_type = "silentarmy"
              /\ Val(args).chain = "regtest")
       => (pc \in {"fatal", "usage"} /\ solver = None /\ run.spawned = 0)
    /\ LookupFailed => (pc = "crashed" /\ solver = None /\ run.spawned = 0)

C2_Witness ==
    /\ pc = "fatal"
    /\ opt.solver_type = Some("silentarmy")
    /\ opt.chain = "regtest"
    /\ solver = None

\* C3: when solver.run() raised SolverException, nothing of the success
\* output is printed; unless the run is interrupted, the cause is reported as
\* a warning, no exception leaves main and the loop is closed; the success
\* output is printed only after solver.run() returned a solution.
C3_SolverExceptionHandled ==
    /\ Raised => ~printed
    /\ (Raised /\ pc \in {"finally", "done", "crashed"}
               /\ pending # "KeyboardInterrupt")
       => (/\ log = <<"solver exception">>
           /\ pending = ""
           /\ pc # "crashed"
           /\ pc = "done" => loop.state = "closed")
    /\ printed => run.state = "SolutionFound"

C3_Witness ==
    /\ Raised
    /\ pc = "done"
    /\ log = <<"solver exception">>
    /\ ~printed
    /\ loop.state = "closed"

C5_TrompExhaustion ==
    (solver # None /\ Val(solver).type = "tromp") =>
        /\ run.alive <= 1
        /\ run.state = "Spawning" => run.alive = 0
        /\ run.state \in {"SolutionFound", "ProcessError", "NoSolutionThisRound"}
           => run.alive = 0
        /\ (\A i \in 1..Len(run.lines) : run.lines[i] = "no solution")
           => /\ Len(run.lines) <= Rounds
              /\ Len(run.lines) = Rounds
                 => /\ run.state = "NoSolutionThisRound"
                    /\ run.spawned = Rounds
                    /\ run.alive = 0
                    /\ pc # "try"
              /\ (Len(run.lines) < Rounds /\ Len(run.lines) > 0)
                 => run.state # "NoSolutionThisRound"

C5_Witness ==
    /\ solver # None
    /\ Val(solver).type = "tromp"
    /\ Rounds >= 2
    /\ run.state = "NoSolutionThisRound"
    /\ run.spawned = Rounds
    /\ run.alive = 0
    /\ pc = "done"

\* C6 as claimed: silentarmy with max rounds > 1 ends parse_args with a fatal
\* error, and no SilentarmySolver is constructed with rounds > 1.
C6_RejectedAtConfiguration ==
    /\ (/\ pc # "start"
        /\ opt.solver_type = Some("silentarmy")
        /\ Rounds > 1) => pc = "fatal"
    /\ ~(solver # None /\ Val(solver).type = "silentarmy"
                       /\ Val(solver).rounds > 1)

\* C6 amended: silentarmy with max rounds > 1 is rejected by parse_args
\* exactly when the chain is regtest; otherwise parse_args returns and the
\* SilentarmySolver main constructs is given the configured rounds.
C6_RoundsPassedThrough ==
    (pc # "start" /\ opt.solver_type = Some("silentarmy") /\ Rounds > 1) =>
        /\ pc = "fatal" <=> opt.chain = "regtest"
        /\ (pc \notin {"parsed", "built", "fatal"} /\ ~LookupFailed)
           => /\ solver # None
              /\ Val(solver).type = "silentarmy"
              /\ Val(solver).rounds = Rounds

C6_Witness ==
    /\ solver # None
    /\ Val(solver).type = "silentarmy"
    /\ Val(solver).rounds = Rounds
    /\ Rounds > 1
    /\ run.spawned = 1

\* C7: the input script carries the extranonce override whenever one is
\* supplied (0 included), and the difficulty bits only when none is.
C7_ExtranonceOverride ==
    eh # None =>
        ScriptSig.extranonce = IF opt.extranonce # None
                               THEN Val(opt.extranonce)
                               ELSE Val(eh).nBits

\* C8: whenever a pszTimestamp override is supplied (the empty string
\* included) the payload is that string and build_pszTimestamp is not
\* invoked (no lookup); its output is the payload only without an override.
C8_PayloadOverride ==
    /\ (pc \notin {"start", "parsed", "fatal", "usage"} /\ opt.pszTimestamp # None)
       => /\ lookups = << >>
          /\ hashed = None
          /\ eh # None
          /\ ScriptSig.payload = Val(opt.pszTimestamp)
    /\ (eh # None /\ opt.pszTimestamp = None)
       => /\ hashed # None
          /\ ScriptSig.payload = Coinname \o blake2s_hexdigest(Val(hashed))

\* C9: the text build_pszTimestamp hashes contains no {XYZ}; it is the
\* template with every occurrence of a token {XYZ} replaced by one and the
\* same "XYZ#<height> <hash>" of an answer the lookup gave for XYZ, also when
\* the answers differ between calls; without tokens no lookup is made.
C9_TokenSubstitution ==
    /\ hashed # None =>
        /\ ~HasToken(Val(hashed))
        /\ \E pick \in [{BTC, ETH} -> 0..Len(lookups)] :
             /\ \A k \in {BTC, ETH} :
                  pick[k] # 0 => /\ lookups[pick[k]].code = SubSeq(k, 2, 4)
                                 /\ lookups[pick[k]].ans.ok
             /\ \A i \in 1..Len(opt.segs) :
                  opt.segs[i] \in {BTC, ETH} => pick[opt.segs[i]] # 0
             /\ Val(hashed) =
                  Flatten([i \in 1..Len(opt.segs) |->
                      IF opt.segs[i] \in {BTC, ETH}
                      THEN LET a == lookups[pick[opt.segs[i]]].ans
                           IN  SubSeq(opt.segs[i], 2, 4) \o <<"#">>
                               \o format_d(a.height) \o <<" ">> \o a.hash
                      ELSE opt.segs[i]])
    /\ (\A i \in 1..Len(opt.segs) : opt.segs[i] \notin {BTC, ETH})
       => lookups = << >>

C9_Witness ==
    /\ hashed # None
    /\ Len(opt.segs) = 3
    /\ opt.segs[1] = BTC
    /\ opt.segs[3] = BTC
    /\ Len(lookups) = 2
    /\ lookups[1].ans # lookups[2].ans

\* C10: without -S the solver type follows from the binary name: sa-solver
\* gives silentarmy, a tail matching eq\w* gives tromp, anything else is a
\* fatal error; main constructs the adapter of that type.
C10_Inference ==
    (pc # "start" /\ opt.solver_type = None) =>
        LET t == infer_solver_type(opt.solver[1])
        IN  IF t = None THEN pc = "fatal"
            ELSE /\ args # None
                 /\ Val(args).solver_type = Val(t)
                 /\ solver # None => Val(solver).type = Val(t)

====
